---- MODULE Spec2Model ----
(***************************************************************************)
(* The news backend: CSV ingestion into news_articles, the similarity      *)
(* query, the random-summary flow (seed, related articles of other         *)
(* sources, one article per source, generation, INSERT of the summary,     *)
(* UPDATE of is_summarized), the explicit summary endpoint, the read      *)
(* endpoints with their parameter parsing, the summaries loader and the    *)
(* embedding service (lazy model, fallback on numpy's global generator).   *)
(* Every SQL statement is one atomic step (the connections autocommit).    *)
(***************************************************************************)
EXTENDS Integers, Sequences, FiniteSets, TLC

\* ------------------------------------------------------------------ bounds
\* Requests one worker thread serves in a behaviour.
MaxRequests == 1
\* Articles of the stored pool that SpecSeq starts from.
PoolSize == 6
\* Runs of load_csv_data one loader makes.
MaxLoads == 1
\* Calls of create_simple_embedding one thread makes in SpecEmbed.
MaxCalls == 2

\* Request-handling threads of the server.
Workers == {"w1", "w2"}
\* Processes that run load_csv_data: the server's start-up thread and the
\* load_data.py script.
Loaders == {"app", "script"}
\* Threads of one process that call create_simple_embedding: a request
\* handler and the start-up loader.
Threads == {"t1", "t2"}

\* ------------------------------------------------------- program constants
\* LIMIT 5 of the related-articles query.
RelatedLimit == 5
\* len(related_articles) < 2 is refused.
MinRelated == 2

\* -------------------------------------------------------------- embeddings
\* Texts are tokens; the sentence encoder is a fixed function from texts to
\* vectors (two dimensions stand for the 384).
model_encode(text) ==
    CASE text = "c1" -> <<1, 0>>
      [] text = "c2" -> <<4, 1>>
      [] text = "c3" -> <<3, 1>>
      [] text = "c4" -> <<2, 1>>
      [] text = "c5" -> <<1, 1>>
      [] text = "c6" -> <<1, 2>>
      [] text = "c7" -> <<2, 2>>
      [] text = "c8" -> <<0, 1>>
      [] OTHER -> <<3, 2>>

create_simple_embedding(text) == model_encode(text)

Dot(a, b) == a[1] * b[1] + a[2] * b[2]

\* embedding <=> query is the cosine distance 1 - a.q / (|a| |q|).
\* Closer(q, a, b): a's distance to q is strictly smaller than b's, compared
\* exactly (|q| cancels; the squares are compared by cross-multiplication).
Closer(q, a, b) ==
    LET da == Dot(q, a)
        db == Dot(q, b)
    IN  IF da >= 0 /\ db >= 0 THEN da * da * Dot(b, b) > db * db * Dot(a, a)
        ELSE IF da >= 0 THEN TRUE
        ELSE IF db >= 0 THEN FALSE
        ELSE da * da * Dot(b, b) < db * db * Dot(a, a)

\* ORDER BY embedding <=> q LIMIT n over the rows `ids` of `rows`: every
\* order the database may return, rows of equal distance in any order.
RECURSIVE OrderByDistance(_, _, _, _)
OrderByDistance(rows, ids, q, n) ==
    IF n = 0 \/ ids = {} THEN {<<>>}
    ELSE LET nearest == {i \in ids : \A j \in ids :
                            ~Closer(q, rows[j].embedding, rows[i].embedding)}
         IN  UNION {{<<i>> \o r : r \in OrderByDistance(rows, ids \ {i}, q, n - 1)}
                    : i \in nearest}

\* ------------------------------------------------------------------- state
VARIABLES
    news_articles,    \* table: id -> [source, link, pub_date, content, embedding, is_summarized]
    summaries,        \* table: id -> [title, tldr, summary, news_articles_ids, refs, embedding]
    article_seq,      \* next id of news_articles
    summary_seq,      \* next id of summaries
    loader_pc,        \* loader -> "start" | "import"
    loader_pos,       \* loader -> index of the next feed record
    loads,            \* loader -> runs of load_csv_data started
    pc,               \* worker -> position in its request
    kind,             \* worker -> endpoint of its request
    requests,         \* worker -> requests started
    request,          \* worker -> the parameters of its request
    random_article,   \* worker -> the seed row [id, source, embedding]
    related_articles, \* worker -> rows [id, source] of the related query
    article_ids,      \* worker -> ids passed to summarize_news_articles
    summary_data,     \* worker -> the generated draft
    summary_id,       \* worker -> id of the summary it inserted, 0 if none
    response,         \* worker -> [status, error, at, body, total]
    issued,           \* worker -> statements and calls the request issued
    snapshot,         \* worker -> the tables when the request started
    summary_pos,      \* script -> index of its next record of summaries.json, 0 before its load
    installed,        \* whether sentence_transformers can be imported
    model,            \* _model: "None" | "loaded"
    constructor_runs, \* calls of SentenceTransformer(...) so far
    rng,              \* numpy's global generator: [seed, drawn]
    embed_pc,         \* thread -> position in create_simple_embedding
    embed_text,       \* thread -> the text of its call
    embed_calls,      \* thread -> calls started
    embedded,         \* the calls that returned or raised: [thread, text, path, out]
    open_connections  \* connections create_random_summary opened and has not closed

db == <<news_articles, summaries, article_seq, summary_seq>>
loaderVars == <<loader_pc, loader_pos, loads>>
embedVars == <<installed, model, constructor_runs, rng, embed_pc, embed_text,
               embed_calls, embedded>>
locals == <<kind, random_article, related_articles, article_ids, summary_data,
            summary_id>>
workerVars == <<pc, requests, request, response, issued, snapshot, locals>>
\* The summaries loader, the embedding service and the handlers' connections.
elsewhere == <<summary_pos, embedVars, open_connections>>
vars == <<db, loaderVars, workerVars, elsewhere>>

NoRow == [id |-> 0, source |-> "", embedding |-> <<0, 0>>]
NoDraft == [keys |-> {}, title |-> "", tldr |-> <<>>, summary |-> "", refs |-> <<>>]
NoResponse == [status |-> 0, error |-> "", at |-> "", body |-> <<>>, total |-> 0]
NoParams == [body |-> FALSE]

\* --------------------------------------------------------------- ingestion
\* The rows of the three CSV files in the order load_csv_data reads them.
\* The SCMP file repeats a link of the HKFP file with another text.
Feed ==
    << [source |-> "HKFP", link |-> "l1", pub_date |-> 3, content |-> "c1"],
       [source |-> "RTHK", link |-> "l2", pub_date |-> 1, content |-> "c2"],
       [source |-> "SCMP", link |-> "l3", pub_date |-> 2, content |-> "c4"],
       [source |-> "SCMP", link |-> "l1", pub_date |-> 2, content |-> "c8"],
       [source |-> "SCMP", link |-> "l4", pub_date |-> 3, content |-> "c5"] >>

\* check_data_exists: COUNT(*) > 0.
check_data_exists == DOMAIN news_articles # {}

\* The row INSERT stores for a CSV record.
NewArticle(rec) ==
    [source |-> rec.source, link |-> rec.link, pub_date |-> rec.pub_date,
     content |-> rec.content,
     embedding |-> create_simple_embedding(rec.content),
     is_summarized |-> FALSE]

\* Mutant: ON CONFLICT (link) DO UPDATE, the stored row replaced.
InsertArticleUpsert(table, id, rec) ==
    IF \E i \in DOMAIN table : table[i].link = rec.link
    THEN [i \in DOMAIN table |->
             IF table[i].link = rec.link THEN NewArticle(rec) ELSE table[i]]
    ELSE (id :> NewArticle(rec)) @@ table

\* Mutant: the INSERT without its ON CONFLICT clause and unique index.
InsertArticleAlways(table, id, rec) == (id :> NewArticle(rec)) @@ table

\* INSERT ... ON CONFLICT (link) DO NOTHING: the table after the statement.
InsertArticle(table, id, rec) ==
    IF \E i \in DOMAIN table : table[i].link = rec.link
    THEN table
    ELSE (id :> NewArticle(rec)) @@ table

\* load_csv_data up to its first INSERT: skip when the table holds rows.
LoadStart(l) ==
    /\ loader_pc[l] = "start"
    /\ loads[l] < MaxLoads
    /\ loads' = [loads EXCEPT ![l] = @ + 1]
    /\ loader_pc' = [loader_pc EXCEPT ![l] =
                        IF check_data_exists THEN "start" ELSE "import"]
    /\ loader_pos' = [loader_pos EXCEPT ![l] = 1]
    /\ UNCHANGED <<db, workerVars, elsewhere>>

\* One iteration of import_csv_file's loop: embed the row and insert it.
\* The id sequence advances whether or not the row is stored.
ImportRow(l) ==
    /\ loader_pc[l] = "import"
    /\ loader_pos[l] <= Len(Feed)
    /\ news_articles' = InsertArticle(news_articles, article_seq,
                                      Feed[loader_pos[l]])
    /\ article_seq' = article_seq + 1
    /\ loader_pos' = [loader_pos EXCEPT ![l] = @ + 1]
    /\ loader_pc' = [loader_pc EXCEPT ![l] =
                        IF loader_pos[l] = Len(Feed) THEN "start" ELSE "import"]
    /\ UNCHANGED <<summaries, summary_seq, loads, workerVars, elsewhere>>

\* -------------------------------------------------------- request handling
\* WHERE is_summarized = FALSE.
Unsummarized(table) == {i \in DOMAIN table : ~table[i].is_summarized}

\* UPDATE news_articles SET is_summarized = TRUE WHERE id = ANY(ids).
UpdateSummarized(table, ids) ==
    [i \in DOMAIN table |->
        IF \E k \in 1..Len(ids) : ids[k] = i
        THEN [table[i] EXCEPT !.is_summarized = TRUE]
        ELSE table[i]]

Reply(p, status, error, body, total) ==
    /\ response' = [response EXCEPT ![p] =
                        [status |-> status, error |-> error, at |-> pc[p],
                         body |-> body, total |-> total]]
    /\ pc' = [pc EXCEPT ![p] = "idle"]

Respond(p, status, error) == Reply(p, status, error, <<>>, 0)

\* A request starts: the worker's locals are fresh.
Begin(p, endpoint, first) ==
    /\ pc[p] = "idle"
    /\ requests[p] < MaxRequests
    /\ requests' = [requests EXCEPT ![p] = @ + 1]
    /\ kind' = [kind EXCEPT ![p] = endpoint]
    /\ issued' = [issued EXCEPT ![p] = <<first>>]
    /\ snapshot' = [snapshot EXCEPT ![p] =
                        [news_articles |-> news_articles, summaries |-> summaries]]
    /\ summary_data' = [summary_data EXCEPT ![p] = NoDraft]
    /\ summary_id' = [summary_id EXCEPT ![p] = 0]

\* Mutant: the loop without its test of source_set.
DiversifyTakesAll(related, source_set) ==
    [k \in 1..Len(related) |-> related[k].id]

\* The loop over related_articles: an article is taken when its source is
\* not yet in source_set.
RECURSIVE Diversify(_, _)
Diversify(related, source_set) ==
    IF related = <<>> THEN <<>>
    ELSE IF Head(related).source \notin source_set
         THEN <<Head(related).id>>
              \o Diversify(Tail(related), source_set \cup {Head(related).source})
         ELSE Diversify(Tail(related), source_set)

\* Mutant: the related query without WHERE is_summarized = FALSE.
RelatedCandidatesConsumed(table, source) ==
    {i \in DOMAIN table : table[i].source # source}

\* Mutant: the related query without AND source != %s.
RelatedCandidatesAnySource(table, source) == Unsummarized(table)

\* The rows the related query may match: unsummarized, of another source.
RelatedCandidates(table, source) ==
    {i \in Unsummarized(table) : table[i].source # source}

\* Mutant: the handler without its check of the length.
TooFewRelatedUnchecked(rows) == FALSE

\* Mutant: the length check off by one.
TooFewRelatedOffByOne(rows) == Len(rows) < MinRelated - 1

\* if len(related_articles) < 2.
TooFewRelated(rows) == Len(rows) < MinRelated

\* Mutant: no check of the seed row; indexing None raises in the handler.
NoCandidatesRaises(p) ==
    /\ Respond(p, 500, "'NoneType' object is not subscriptable")
    /\ UNCHANGED <<random_article, related_articles, article_ids>>

\* if not random_article: the 404 answer.
NoCandidates(p) ==
    /\ Respond(p, 404, "No unsummarized articles found")
    /\ UNCHANGED <<random_article, related_articles, article_ids>>

\* create_random_summary up to the seed query: the connection is opened and
\* a random unsummarized row selected.
SelectRandomArticle(p) ==
    /\ Begin(p, "random", "select_seed")
    /\ request' = [request EXCEPT ![p] = NoParams]
    /\ IF Unsummarized(news_articles) = {}
       THEN NoCandidates(p)
       ELSE /\ \E i \in Unsummarized(news_articles) :
                  random_article' = [random_article EXCEPT ![p] =
                      [id |-> i, source |-> news_articles[i].source,
                       embedding |-> news_articles[i].embedding]]
            /\ related_articles' = [related_articles EXCEPT ![p] = <<>>]
            /\ article_ids' = [article_ids EXCEPT ![p] = <<>>]
            /\ pc' = [pc EXCEPT ![p] = "related"]
            /\ response' = [response EXCEPT ![p] = NoResponse]
    /\ open_connections' = open_connections + 1
    /\ UNCHANGED <<db, loaderVars, summary_pos, embedVars>>

\* Mutant: the refusal answered as a server error.
InsufficientDiversityServerError(p) ==
    /\ Respond(p, 500, "Not enough related articles found from different sources")
    /\ UNCHANGED article_ids

\* if len(related_articles) < 2: the 404 answer.
InsufficientDiversity(p) ==
    /\ Respond(p, 404, "Not enough related articles found from different sources")
    /\ UNCHANGED article_ids

\* The related query, the check of its length and the one-per-source loop.
SelectRelated(p) ==
    /\ pc[p] = "related"
    /\ issued' = [issued EXCEPT ![p] = Append(@, "select_related")]
    /\ \E order \in OrderByDistance(news_articles,
                        RelatedCandidates(news_articles, random_article[p].source),
                        random_article[p].embedding, RelatedLimit) :
          LET rows == [k \in 1..Len(order) |->
                          [id |-> order[k], source |-> news_articles[order[k]].source]]
          IN  /\ related_articles' = [related_articles EXCEPT ![p] = rows]
              /\ IF TooFewRelated(rows)
                 THEN InsufficientDiversity(p)
                 ELSE /\ article_ids' = [article_ids EXCEPT ![p] =
                            <<random_article[p].id>> \o Diversify(rows, {})]
                      /\ pc' = [pc EXCEPT ![p] = "fetch"]
                      /\ UNCHANGED response
    /\ UNCHANGED <<db, loaderVars, elsewhere, requests, request, snapshot, kind,
                   random_article, summary_data, summary_id>>

\* The status an error of summarize_news_articles is answered with.
ErrorStatus(endpoint) == IF endpoint = "random" THEN 500 ELSE 400

\* summarize_news_articles up to its SELECT of the articles.
FetchArticles(p) ==
    /\ pc[p] = "fetch"
    /\ issued' = [issued EXCEPT ![p] = Append(@, "select_articles")]
    /\ IF \A k \in 1..Len(article_ids[p]) : article_ids[p][k] \notin DOMAIN news_articles
       THEN Respond(p, ErrorStatus(kind[p]), "No articles found with the provided IDs")
       ELSE /\ pc' = [pc EXCEPT ![p] = "generate"]
            /\ UNCHANGED response
    /\ UNCHANGED <<db, loaderVars, elsewhere, requests, request, snapshot, locals>>

\* What the external model may answer: the declared JSON object, a JSON
\* object that lacks one of its keys, an API error, a text that is no JSON.
GenerateOutcomes ==
    {"json", "json_without_refs", "json_without_title", "api_error", "malformed"}
\* The answers of a model that keeps to the declared shape whenever it
\* answers in JSON.
ShapedOutcomes == {"json", "api_error", "malformed"}

\* The keys of the JSON object the prompt asks for.
DeclaredKeys == {"title", "tldr", "summary", "refs"}
\* The keys save_summary_to_db subscripts.
SavedKeys == {"title", "tldr", "summary"}

\* The parsed answer of the declared shape for the fetched articles.
Draft(ids) ==
    [keys |-> DeclaredKeys,
     title |-> "T", tldr |-> <<"a", "b", "c", "d">>, summary |-> "S",
     refs |-> <<[sentence |-> "S", id |-> ids[1]]>>]

\* json.loads of the answer: the dict as the model sent it, whatever its keys.
ParsedAnswer(ids, outcome) ==
    CASE outcome = "json_without_refs" ->
            [Draft(ids) EXCEPT !.keys = @ \ {"refs"}, !.refs = <<>>]
      [] outcome = "json_without_title" ->
            [Draft(ids) EXCEPT !.keys = @ \ {"title"}, !.title = ""]
      [] OTHER -> Draft(ids)

\* Mutant: a failed generation still marks the chosen articles summarized.
GenerateFailureMarks(p) ==
    /\ Respond(p, ErrorStatus(kind[p]), "Failed to generate summary")
    /\ news_articles' = UpdateSummarized(news_articles, article_ids[p])
    /\ UNCHANGED summary_data

\* Mutant: a failed generation is tried again instead of reported.
GenerateFailureRetries(p) ==
    /\ pc' = pc
    /\ response' = response
    /\ UNCHANGED <<summary_data, news_articles>>

\* if not summary_data: the error result and the handler's answer to it.
GenerateFailure(p) ==
    /\ Respond(p, ErrorStatus(kind[p]), "Failed to generate summary")
    /\ UNCHANGED <<summary_data, news_articles>>

\* generate_summary_with_openai: the call and json.loads; None on any error.
\* `answers` are the answers the external model may give.
Generate(p, answers) ==
    /\ pc[p] = "generate"
    /\ issued' = [issued EXCEPT ![p] = Append(@, "generate")]
    /\ \E outcome \in answers :
          IF outcome \notin {"api_error", "malformed"}
          THEN /\ summary_data' = [summary_data EXCEPT ![p] =
                                       ParsedAnswer(article_ids[p], outcome)]
               /\ pc' = [pc EXCEPT ![p] = "save"]
               /\ UNCHANGED <<response, news_articles>>
          ELSE GenerateFailure(p)
    /\ UNCHANGED <<summaries, article_seq, summary_seq, loaderVars, elsewhere,
                   requests, request, snapshot, kind, random_article, related_articles,
                   article_ids, summary_id>>

\* INSERT INTO summaries (title, tldr, summary, news_articles_ids, embedding):
\* refs is not among the columns and stays empty; created_at is the time of
\* the INSERT, which grows with the id.
InsertSummary(table, id, draft, ids) ==
    (id :> [title |-> draft.title, tldr |-> draft.tldr, summary |-> draft.summary,
            news_articles_ids |-> ids, refs |-> <<>>,
            embedding |-> create_simple_embedding(draft.title \o " " \o draft.summary),
            created_at |-> id])
    @@ table

\* Mutant: the articles are marked before the INSERT is known to succeed.
SaveFailureMarks(p) ==
    /\ Respond(p, ErrorStatus(kind[p]), "Failed to save summary to database")
    /\ news_articles' = UpdateSummarized(news_articles, article_ids[p])
    /\ UNCHANGED <<summaries, summary_seq, summary_id>>

\* if not summary_id: the error result and the handler's answer to it.
SaveFailure(p) ==
    /\ Respond(p, ErrorStatus(kind[p]), "Failed to save summary to database")
    /\ UNCHANGED <<summaries, summary_seq, summary_id, news_articles>>

\* save_summary_to_db: the INSERT, or None when a subscript of summary_data
\* raises KeyError or the database raises.
SaveSummary(p) ==
    /\ pc[p] = "save"
    /\ issued' = [issued EXCEPT ![p] = Append(@, "insert_summary")]
    /\ \/ /\ SavedKeys \subseteq summary_data[p].keys
          /\ summaries' = InsertSummary(summaries, summary_seq, summary_data[p],
                                        article_ids[p])
          /\ summary_seq' = summary_seq + 1
          /\ summary_id' = [summary_id EXCEPT ![p] = summary_seq]
          /\ IF kind[p] = "random"
             THEN /\ pc' = [pc EXCEPT ![p] = "mark"]
                  /\ UNCHANGED response
             ELSE Respond(p, 200, "")
          /\ UNCHANGED news_articles
       \/ SaveFailure(p)
    /\ UNCHANGED <<article_seq, loaderVars, elsewhere, requests, request, snapshot, kind,
                   random_article, related_articles, article_ids, summary_data>>

\* The end of create_random_summary: the UPDATE and conn.close(), or the
\* handler's except, which answers without closing.
MarkSummarized(p) ==
    /\ pc[p] = "mark"
    /\ issued' = [issued EXCEPT ![p] = Append(@, "update_summarized")]
    /\ \/ /\ news_articles' = UpdateSummarized(news_articles, article_ids[p])
          /\ open_connections' = open_connections - 1
          /\ Respond(p, 200, "")
       \/ /\ Respond(p, 500, "database error")
          /\ UNCHANGED <<news_articles, open_connections>>
    /\ UNCHANGED <<summaries, article_seq, summary_seq, loaderVars, summary_pos,
                   embedVars, requests, request, snapshot, locals>>

\* The caller gives up while the request waits for the external model or
\* for the database after it: the request is torn down where it stands.
Abandon(p) ==
    /\ pc[p] \in {"generate", "save", "mark"}
    /\ Respond(p, 0, "abandoned")
    /\ UNCHANGED <<db, loaderVars, elsewhere, requests, issued, request, snapshot, locals>>

\* ------------------------------------------------------- other endpoints
\* The article_ids a client may post: none, stored ids, an id never stored,
\* a stored id beside one never stored.
PostedIds == {<<>>, <<1, 2>>, <<9>>, <<1, 9>>}
\* The JSON bodies a client may post to /api/summaries.
PostBodies == {[body |-> FALSE, article_ids |-> <<>>]}
              \cup [body : {TRUE}, article_ids : PostedIds]

\* POST /api/summaries up to the call of summarize_news_articles.
CreateSummary(p) ==
    /\ Begin(p, "explicit", "post_summaries")
    /\ \E data \in PostBodies :
          /\ request' = [request EXCEPT ![p] = data]
          /\ article_ids' = [article_ids EXCEPT ![p] = data.article_ids]
          /\ IF ~data.body
             THEN Respond(p, 400, "Request data is required")
             ELSE IF data.article_ids = <<>>
             THEN Respond(p, 400, "Article IDs are required")
             ELSE /\ pc' = [pc EXCEPT ![p] = "fetch"]
                  /\ response' = [response EXCEPT ![p] = NoResponse]
    /\ random_article' = [random_article EXCEPT ![p] = NoRow]
    /\ related_articles' = [related_articles EXCEPT ![p] = <<>>]
    /\ UNCHANGED <<db, loaderVars, elsewhere>>

\* A parameter the request does not carry.
Absent == "<absent>"
\* The default of limit.
DefaultLimit == 10

\* The strings int() accepts, with their values.
IntLiterals == ("0" :> 0) @@ ("1" :> 1) @@ ("2" :> 2) @@ ("3" :> 3) @@ ("9" :> 9)

\* int(raw) raises ValueError.
IntRaises(raw) == raw # Absent /\ raw \notin DOMAIN IntLiterals

\* int(args.get(name, default)).
int(raw, default) == IF raw = Absent THEN default ELSE IntLiterals[raw]

\* An exception outside the handler's try: the framework's own answer.
Unhandled(p) == Respond(p, 500, "Internal Server Error")

\* seq[lo:hi] for lo, hi >= 0.
PySlice(seq, lo, hi) ==
    SubSeq(seq, lo + 1, IF hi < Len(seq) THEN hi ELSE Len(seq))

\* Mutant: LIMIT applied to the rows as stored, the sort after it.
PageThenRank(rows, ids, q, lo, hi) ==
    UNION {{PySlice(o, lo, hi) : o \in OrderByDistance(rows, kept, q, hi)}
           : kept \in {k \in SUBSET ids :
                          Cardinality(k) = IF hi < Cardinality(ids) THEN hi
                                           ELSE Cardinality(ids)}}

\* sorted(rows, key = similarity, reverse = True)[lo:hi] over the rows the
\* SELECT returns in any order: the stable sort keeps equal keys in row
\* order. similarity = 1 - distance is exact in binary64 for a distance in
\* [0, 2], so the order by similarity is the reverse order by distance.
RankedPage(rows, ids, q, lo, hi) ==
    {PySlice(o, lo, hi) : o \in OrderByDistance(rows, ids, q, hi)}

\* The JSON bodies a client may post to a search endpoint, parameters as
\* sent: body = FALSE is a request without one, source = "" one without a
\* source.
SearchBodies ==
    { [body |-> FALSE, q |-> "", source |-> "", limit |-> Absent],
      [body |-> TRUE, q |-> "", source |-> "", limit |-> "2"],
      [body |-> TRUE, q |-> "", source |-> "", limit |-> "abc"],
      [body |-> TRUE, q |-> "c5", source |-> "", limit |-> "abc"],
      [body |-> TRUE, q |-> "c5", source |-> "", limit |-> "2"],
      [body |-> TRUE, q |-> "c5", source |-> "", limit |-> Absent],
      [body |-> TRUE, q |-> "c5", source |-> "HKFP", limit |-> "2"] }

\* POST /api/news/search.
SearchNews(p) ==
    /\ Begin(p, "search", "select_distance")
    /\ \E data \in SearchBodies :
          /\ request' = [request EXCEPT ![p] = data]
          /\ IF ~data.body THEN Respond(p, 400, "Search data is required")
             ELSE IF IntRaises(data.limit) THEN Unhandled(p)
             ELSE IF data.q = "" THEN Respond(p, 400, "Search query is required")
             ELSE \E page \in RankedPage(news_articles,
                             {i \in DOMAIN news_articles :
                                 data.source = "" \/ news_articles[i].source = data.source},
                             create_simple_embedding(data.q),
                             0, int(data.limit, DefaultLimit)) :
                     Reply(p, 200, "", page, 0)
    /\ article_ids' = [article_ids EXCEPT ![p] = <<>>]
    /\ random_article' = [random_article EXCEPT ![p] = NoRow]
    /\ related_articles' = [related_articles EXCEPT ![p] = <<>>]
    /\ UNCHANGED <<db, loaderVars, elsewhere>>

\* ORDER BY pub_date DESC over the first n of the rows `ids`: every order
\* the database may return.
RECURSIVE OrderByPubDateDesc(_, _, _)
OrderByPubDateDesc(rows, ids, n) ==
    IF n = 0 \/ ids = {} THEN {<<>>}
    ELSE LET latest == {i \in ids : \A j \in ids :
                           rows[j].pub_date <= rows[i].pub_date}
         IN  UNION {{<<i>> \o r : r \in OrderByPubDateDesc(rows, ids \ {i}, n - 1)}
                    : i \in latest}

\* The query strings a client may send to GET /api/news, parameters as
\* sent: ids split at its commas, <<>> when absent.
NewsParams ==
    { [source |-> "", ids |-> <<>>, limit |-> "2", offset |-> Absent],
      [source |-> "", ids |-> <<>>, limit |-> "2", offset |-> "1"],
      [source |-> "HKFP", ids |-> <<>>, limit |-> "2", offset |-> Absent],
      [source |-> "", ids |-> <<"1">>, limit |-> Absent, offset |-> Absent],
      [source |-> "HKFP", ids |-> <<"1">>, limit |-> "2", offset |-> Absent],
      [source |-> "", ids |-> <<>>, limit |-> "abc", offset |-> Absent],
      [source |-> "", ids |-> <<>>, limit |-> "2", offset |-> "abc"],
      [source |-> "", ids |-> <<"1", "abc">>, limit |-> "2", offset |-> Absent] }

\* GET /api/news: with source and ids the statement holds two WHERE clauses
\* and the database refuses it; the count applies the source filter alone.
GetNews(p) ==
    /\ Begin(p, "news", "select_page")
    /\ \E args \in NewsParams :
          /\ request' = [request EXCEPT ![p] = args]
          /\ IF \/ IntRaises(args.limit) \/ IntRaises(args.offset)
                \/ \E k \in 1..Len(args.ids) : IntRaises(args.ids[k])
             THEN Unhandled(p)
             ELSE LET source == args.source
                      limit == int(args.limit, DefaultLimit)
                      offset == int(args.offset, 0)
                      ids == [k \in 1..Len(args.ids) |-> int(args.ids[k], 0)]
                  IN  IF source # "" /\ ids # <<>>
                      THEN Respond(p, 500, "syntax error")
                      ELSE \E rows \in OrderByPubDateDesc(news_articles,
                                 {i \in DOMAIN news_articles :
                                     /\ source = "" \/ news_articles[i].source = source
                                     /\ ids = <<>> \/ \E k \in 1..Len(ids) : ids[k] = i},
                                 offset + limit) :
                             Reply(p, 200, "", PySlice(rows, offset, offset + limit),
                                   Cardinality({i \in DOMAIN news_articles :
                                       source = "" \/ news_articles[i].source = source}))
    /\ article_ids' = [article_ids EXCEPT ![p] = <<>>]
    /\ random_article' = [random_article EXCEPT ![p] = NoRow]
    /\ related_articles' = [related_articles EXCEPT ![p] = <<>>]
    /\ UNCHANGED <<db, loaderVars, elsewhere>>

\* ------------------------------------------------------ summary endpoints
\* The records of hk_news/summaries.json. The second and third texts lie at
\* the same distance from every query.
SummaryFile ==
    << [title |-> "T1", tldr |-> <<"a">>, summary |-> "c4",
        news_articles_ids |-> <<1, 2>>,
        refs |-> <<[sentence |-> "s1", id |-> 2], [sentence |-> "s2", id |-> 1]>>],
       [title |-> "T2", tldr |-> <<"b">>, summary |-> "c7",
        news_articles_ids |-> <<3, 4>>,
        refs |-> <<[sentence |-> "s3", id |-> 4]>>],
       [title |-> "T3", tldr |-> <<"c">>, summary |-> "c5",
        news_articles_ids |-> <<2, 3>>, refs |-> <<>>] >>

\* check_summaries_exist: COUNT(*) > 0.
check_summaries_exist == DOMAIN summaries # {}

\* The row load_summaries_json stores for a record: refs keeps the sentences.
LoadedSummary(rec, id) ==
    [title |-> rec.title, tldr |-> rec.tldr, summary |-> rec.summary,
     news_articles_ids |-> rec.news_articles_ids,
     refs |-> [k \in 1..Len(rec.refs) |-> rec.refs[k].sentence],
     embedding |-> create_simple_embedding(rec.summary),
     created_at |-> id]

\* The scripts whose main program runs load_summaries_json.
SummaryLoaders == {"load_data.py", "data_loader.py"}

\* load_summaries_json up to its loop: skip when the table holds rows.
LoadSummariesStart(l) ==
    /\ summary_pos[l] = 0
    /\ summary_pos' = [summary_pos EXCEPT ![l] =
                          IF check_summaries_exist THEN Len(SummaryFile) + 1 ELSE 1]
    /\ UNCHANGED <<db, loaderVars, workerVars, embedVars, open_connections>>

\* One iteration of load_summaries_json's loop.
LoadSummary(l) ==
    /\ summary_pos[l] \in 1..Len(SummaryFile)
    /\ summaries' = (summary_seq :> LoadedSummary(SummaryFile[summary_pos[l]], summary_seq))
                        @@ summaries
    /\ summary_seq' = summary_seq + 1
    /\ summary_pos' = [summary_pos EXCEPT ![l] = @ + 1]
    /\ UNCHANGED <<news_articles, article_seq, loaderVars, workerVars, embedVars, open_connections>>

\* refs_array: the stored sentences numbered from 1.
RefsArray(refs) == [i \in 1..Len(refs) |-> [id |-> i, sentence |-> refs[i]]]

\* The JSON object of a stored summary.
SummaryPayload(table, id) ==
    [id |-> id, title |-> table[id].title, tldr |-> table[id].tldr,
     summary |-> table[id].summary,
     news_articles_ids |-> table[id].news_articles_ids,
     refs |-> RefsArray(table[id].refs),
     created_at |-> table[id].created_at]

Payloads(table, page) == [k \in 1..Len(page) |-> SummaryPayload(table, page[k])]

\* The worker's locals a handler does not use.
NoLocals(p) ==
    /\ article_ids' = [article_ids EXCEPT ![p] = <<>>]
    /\ random_article' = [random_article EXCEPT ![p] = NoRow]
    /\ related_articles' = [related_articles EXCEPT ![p] = <<>>]

\* The summary ids a client may ask for: the path segment as sent.
SummaryIdParams == {"1", "2", "9", "abc"}

\* Mutant: a fetch that stamps the stored rows as read.
GetSummaryWrites(p) ==
    /\ Begin(p, "summary", "select_summary")
    /\ \E raw \in SummaryIdParams :
          /\ request' = [request EXCEPT ![p] = [id |-> raw]]
          /\ IF IntRaises(raw) THEN Respond(p, 404, "Not Found")
             ELSE IF int(raw, 0) \notin DOMAIN summaries
             THEN Respond(p, 404, "Summary not found")
             ELSE Reply(p, 200, "", <<SummaryPayload(summaries, int(raw, 0))>>, 0)
    /\ summaries' = [i \in DOMAIN summaries |->
                        [summaries[i] EXCEPT !.title = "read"]]
    /\ NoLocals(p)
    /\ UNCHANGED <<news_articles, article_seq, summary_seq, loaderVars, elsewhere>>

\* GET /api/summaries/<int:summary_id>: a segment that is no integer matches
\* no route.
GetSummary(p) ==
    /\ Begin(p, "summary", "select_summary")
    /\ \E raw \in SummaryIdParams :
          /\ request' = [request EXCEPT ![p] = [id |-> raw]]
          /\ IF IntRaises(raw) THEN Respond(p, 404, "Not Found")
             ELSE IF int(raw, 0) \notin DOMAIN summaries
             THEN Respond(p, 404, "Summary not found")
             ELSE Reply(p, 200, "", <<SummaryPayload(summaries, int(raw, 0))>>, 0)
    /\ NoLocals(p)
    /\ UNCHANGED <<db, loaderVars, elsewhere>>

\* ORDER BY created_at DESC over the first n of the rows `ids`.
RECURSIVE OrderByCreatedAtDesc(_, _, _)
OrderByCreatedAtDesc(rows, ids, n) ==
    IF n = 0 \/ ids = {} THEN {<<>>}
    ELSE LET latest == {i \in ids : \A j \in ids :
                           rows[j].created_at <= rows[i].created_at}
         IN  UNION {{<<i>> \o r : r \in OrderByCreatedAtDesc(rows, ids \ {i}, n - 1)}
                    : i \in latest}

\* The query strings a client may send to GET /api/summaries.
SummariesParams ==
    [q : {Absent, "c5"}, limit : {Absent, "2"}, offset : {Absent, "1"}]
    \cup { [q |-> Absent, limit |-> "abc", offset |-> Absent],
           [q |-> "c5", limit |-> "2", offset |-> "abc"] }

\* GET /api/summaries: with q the rows ranked by similarity and sliced
\* [offset:limit], without it LIMIT limit OFFSET offset by created_at.
GetSummaries(p) ==
    /\ Begin(p, "summaries", "select_summaries")
    /\ \E args \in SummariesParams :
          /\ request' = [request EXCEPT ![p] = args]
          /\ IF IntRaises(args.limit) \/ IntRaises(args.offset) THEN Unhandled(p)
             ELSE LET q == args.q
                      limit == int(args.limit, DefaultLimit)
                      offset == int(args.offset, 0)
                      total == Cardinality(DOMAIN summaries)
                  IN  IF q # Absent
                      THEN \E page \in RankedPage(summaries, DOMAIN summaries,
                                          create_simple_embedding(q), offset, limit) :
                              Reply(p, 200, "", Payloads(summaries, page), total)
                      ELSE \E rows \in OrderByCreatedAtDesc(summaries, DOMAIN summaries,
                                                           offset + limit) :
                              Reply(p, 200, "",
                                    Payloads(summaries, PySlice(rows, offset, offset + limit)),
                                    total)
    /\ NoLocals(p)
    /\ UNCHANGED <<db, loaderVars, elsewhere>>

\* POST /api/summaries/search.
SearchSummary(p) ==
    /\ Begin(p, "search_summary", "select_distance")
    /\ \E data \in SearchBodies :
          /\ request' = [request EXCEPT ![p] = data]
          /\ IF ~data.body THEN Respond(p, 400, "Search data is required")
             ELSE IF IntRaises(data.limit) THEN Unhandled(p)
             ELSE IF data.q = "" THEN Respond(p, 400, "Search query is required")
             ELSE \E page \in RankedPage(summaries, DOMAIN summaries,
                                         create_simple_embedding(data.q),
                                         0, int(data.limit, DefaultLimit)) :
                     Reply(p, 200, "", Payloads(summaries, page), 0)
    /\ NoLocals(p)
    /\ UNCHANGED <<db, loaderVars, elsewhere>>

\* ------------------------------------------------------ embedding service
\* The texts the threads embed: "" stands for a missing content.
EmbedTexts == {"", "c1", "c2"}

\* if not text or not isinstance(text, str): the placeholder. (The texts
\* here are shorter than max_chars.)
Clean(text) == IF text = "" THEN "No content available" ELSE text

\* The seeds of the generator: 2**32 of them in the code, 2^16 here, where
\* the integers end at 2^31 - 1.
SeedModulus == 2 ^ 16

\* hash(text): the process's string hash, a signed number wider than a seed.
hash(text) ==
    CASE text = "c1" -> 3 * SeedModulus + 7
      [] text = "c2" -> 0 - 3
      [] OTHER -> SeedModulus + 11

\* np.random.rand(vector_size) normalised: the vector the generator yields
\* in state `state`, named by that state.
FallbackVector(state) == <<state.seed, state.drawn>>

\* The call of thread t has ended: returned `out` on `path`, or raised.
Return(t, path, out) ==
    /\ embedded' = embedded \cup
          {[thread |-> t, text |-> embed_text[t], path |-> path, out |-> out]}
    /\ embed_pc' = [embed_pc EXCEPT ![t] = "idle"]

\* create_simple_embedding up to the call of get_embedding_model.
EmbedCall(t) ==
    /\ embed_pc[t] = "idle"
    /\ embed_calls[t] < MaxCalls
    /\ embed_calls' = [embed_calls EXCEPT ![t] = @ + 1]
    /\ \E text \in EmbedTexts : embed_text' = [embed_text EXCEPT ![t] = Clean(text)]
    /\ embed_pc' = [embed_pc EXCEPT ![t] = "get_model"]
    /\ UNCHANGED <<db, loaderVars, workerVars, summary_pos, open_connections, installed, model,
                   constructor_runs, rng, embedded>>

\* get_embedding_model: the test of _model.
GetModel(t) ==
    /\ embed_pc[t] = "get_model"
    /\ embed_pc' = [embed_pc EXCEPT ![t] = IF model = "None" THEN "load" ELSE "encode"]
    /\ UNCHANGED <<db, loaderVars, workerVars, summary_pos, open_connections, installed, model,
                   constructor_runs, rng, embed_text, embed_calls, embedded>>

\* The constructor raises something other than ImportError: nothing in
\* get_embedding_model or create_simple_embedding catches it.
LoadFailure(t) ==
    /\ Return(t, "raised", <<>>)
    /\ UNCHANGED model

\* get_embedding_model after it saw _model is None: the import, which
\* raises ImportError when the package is missing, and the constructor.
LoadModel(t) ==
    /\ embed_pc[t] = "load"
    /\ IF ~installed
       THEN /\ model' = "None"
            /\ embed_pc' = [embed_pc EXCEPT ![t] = "seed"]
            /\ UNCHANGED <<constructor_runs, embedded>>
       ELSE /\ constructor_runs' = constructor_runs + 1
            /\ \/ /\ model' = "loaded"
                  /\ embed_pc' = [embed_pc EXCEPT ![t] = "encode"]
                  /\ UNCHANGED embedded
               \/ LoadFailure(t)
    /\ UNCHANGED <<db, loaderVars, workerVars, summary_pos, open_connections, installed, rng,
                   embed_text, embed_calls>>

\* model.encode(text): the vector, or the except that falls through to the
\* fallback.
Encode(t) ==
    /\ embed_pc[t] = "encode"
    /\ \/ Return(t, "model", model_encode(embed_text[t]))
       \/ /\ embed_pc' = [embed_pc EXCEPT ![t] = "seed"]
          /\ UNCHANGED embedded
    /\ UNCHANGED <<db, loaderVars, workerVars, summary_pos, open_connections, installed, model,
                   constructor_runs, rng, embed_text, embed_calls>>

\* np.random.seed(hash(text) % 2**32) on numpy's global generator.
Seed(t) ==
    /\ embed_pc[t] = "seed"
    /\ rng' = [seed |-> hash(embed_text[t]) % SeedModulus, drawn |-> 0]
    /\ embed_pc' = [embed_pc EXCEPT ![t] = "draw"]
    /\ UNCHANGED <<db, loaderVars, workerVars, summary_pos, open_connections, installed, model,
                   constructor_runs, embed_text, embed_calls, embedded>>

\* np.random.rand(vector_size) on the global generator, and the return.
Draw(t) ==
    /\ embed_pc[t] = "draw"
    /\ rng' = [rng EXCEPT !.drawn = @ + 1]
    /\ Return(t, "fallback", FallbackVector(rng))
    /\ UNCHANGED <<db, loaderVars, workerVars, summary_pos, open_connections, installed, model,
                   constructor_runs, embed_text, embed_calls>>

\* ---------------------------------------------------------- specifications
NoTables == [news_articles |-> <<>>, summaries |-> <<>>]

InitWorkers ==
    /\ pc = [p \in Workers |-> "idle"]
    /\ kind = [p \in Workers |-> ""]
    /\ requests = [p \in Workers |-> 0]
    /\ request = [p \in Workers |-> NoParams]
    /\ random_article = [p \in Workers |-> NoRow]
    /\ related_articles = [p \in Workers |-> <<>>]
    /\ article_ids = [p \in Workers |-> <<>>]
    /\ summary_data = [p \in Workers |-> NoDraft]
    /\ summary_id = [p \in Workers |-> 0]
    /\ response = [p \in Workers |-> NoResponse]
    /\ issued = [p \in Workers |-> <<>>]
    /\ snapshot = [p \in Workers |-> NoTables]
    /\ open_connections = 0

InitLoaders ==
    /\ loader_pc = [l \in Loaders |-> "start"]
    /\ loader_pos = [l \in Loaders |-> 1]
    /\ loads = [l \in Loaders |-> 0]
    /\ summary_pos = [l \in SummaryLoaders |-> 0]

\* The embedding service of a fresh process, sentence_transformers
\* installed or not.
InitService ==
    /\ installed \in BOOLEAN
    /\ model = "None"
    /\ constructor_runs = 0
    /\ rng = [seed |-> 0, drawn |-> 0]
    /\ embed_pc = [t \in Threads |-> "idle"]
    /\ embed_text = [t \in Threads |-> ""]
    /\ embed_calls = [t \in Threads |-> 0]
    /\ embedded = {}

\* In the server's specifications a call of create_simple_embedding is one
\* step on its primary path; SpecEmbed takes the call apart.
InitEmbed == InitService /\ installed = TRUE

\* The server after start-up: empty tables, the start-up thread about to load.
Init ==
    /\ news_articles = <<>>
    /\ summaries = <<>>
    /\ article_seq = 1
    /\ summary_seq = 1
    /\ InitLoaders
    /\ InitWorkers
    /\ InitEmbed

\* The steps of the random-summary flow of worker p, the external model
\* answering with one of `answers`.
RandomSummaryOf(p, answers) ==
    \/ SelectRandomArticle(p)
    \/ SelectRelated(p)
    \/ FetchArticles(p)
    \/ Generate(p, answers)
    \/ SaveSummary(p)
    \/ MarkSummarized(p)
    \/ Abandon(p)

\* The flow beside a model that may answer anything.
RandomSummary(p) == RandomSummaryOf(p, GenerateOutcomes)

\* The server: its start-up loader and its workers serving every endpoint.
Next ==
    \/ LoadStart("app")
    \/ ImportRow("app")
    \/ \E p \in Workers : RandomSummary(p)
    \/ \E p \in Workers : CreateSummary(p)
    \/ \E p \in Workers : SearchNews(p)
    \/ \E p \in Workers : GetNews(p)

Spec == Init /\ [][Next]_vars

\* Ingestion by the server's thread and the script at once, beside one
\* worker that serves the endpoints that write; SpecRead has the reads.
NextIngest ==
    \/ \E l \in Loaders : LoadStart(l)
    \/ \E l \in Loaders : ImportRow(l)
    \/ RandomSummary("w1")
    \/ CreateSummary("w1")

SpecIngest == Init /\ [][NextIngest]_vars

\* The sources an article may have: the three CSV files' and any other.
Sources == <<"HKFP", "RTHK", "SCMP", "OTHER">>

\* The flow compares sources for equality only, so a pool is drawn up to
\* the renaming of its sources: they are numbered in order of appearance.
InOrderOfAppearance(src) ==
    \A i \in DOMAIN src : src[i] = 1 \/ \E j \in 1..(i - 1) : src[j] >= src[i] - 1
\* The texts of the articles of a stored pool, by id.
PoolTexts == <<"c1", "c2", "c3", "c4", "c5", "c6", "c7", "c8">>

\* A server whose table already holds a pool of unsummarized articles of any
\* sources, and whose loaders find the data present.
InitSeq ==
    /\ \E src \in [1..PoolSize -> 1..Len(Sources)] :
          /\ InOrderOfAppearance(src)
          /\ news_articles = [i \in 1..PoolSize |->
              [source |-> Sources[src[i]], link |-> PoolTexts[i], pub_date |-> i,
               content |-> PoolTexts[i],
               embedding |-> create_simple_embedding(PoolTexts[i]),
               is_summarized |-> FALSE]]
    /\ summaries = <<>>
    /\ article_seq = PoolSize + 1
    /\ summary_seq = 1
    /\ InitLoaders
    /\ InitWorkers
    /\ InitEmbed

\* One worker serving random-summary requests, nothing else running, the
\* external model keeping to the declared shape; the answers outside it are
\* part of the other specifications.
NextSeq == RandomSummaryOf("w1", ShapedOutcomes)

SpecSeq == InitSeq /\ [][NextSeq]_vars

\* A server whose news_articles holds a pool of articles, its summaries
\* table still empty.
InitRead ==
    /\ news_articles = [i \in 1..PoolSize |->
          [source |-> Sources[((i - 1) % Len(Sources)) + 1], link |-> PoolTexts[i],
           pub_date |-> i, content |-> PoolTexts[i],
           embedding |-> create_simple_embedding(PoolTexts[i]),
           is_summarized |-> FALSE]]
    /\ summaries = <<>>
    /\ article_seq = PoolSize + 1
    /\ summary_seq = 1
    /\ InitLoaders
    /\ InitWorkers
    /\ InitEmbed

\* The steps of POST /api/summaries of worker p.
ExplicitSummary(p) ==
    \/ CreateSummary(p)
    \/ FetchArticles(p)
    \/ Generate(p, GenerateOutcomes)
    \/ SaveSummary(p)

\* The summaries loader beside one worker serving every read endpoint and
\* another fetching summaries by id.
NextRead ==
    \/ LoadSummariesStart("load_data.py")
    \/ LoadSummary("load_data.py")
    \/ \E p \in Workers : GetSummary(p)
    \/ GetSummaries("w1")
    \/ SearchSummary("w1")
    \/ SearchNews("w1")
    \/ GetNews("w1")

SpecRead == InitRead /\ [][NextRead]_vars

\* The summaries loader beside one worker creating summaries of posted
\* articles and another reading summaries.
NextCite ==
    \/ LoadSummariesStart("load_data.py")
    \/ LoadSummary("load_data.py")
    \/ ExplicitSummary("w1")
    \/ GetSummary("w2")
    \/ GetSummaries("w2")
    \/ SearchSummary("w2")

SpecCite == InitRead /\ [][NextCite]_vars

\* A pool of articles of the three CSV files' sources in turn.
FeedPool ==
    [i \in 1..PoolSize |->
        [source |-> Sources[((i - 1) % 3) + 1], link |-> PoolTexts[i],
         pub_date |-> i, content |-> PoolTexts[i],
         embedding |-> create_simple_embedding(PoolTexts[i]),
         is_summarized |-> FALSE]]

\* A server on whose pool one random-summary flow has succeeded before: its
\* sample is marked summarized and its summary is stored.
InitUsed ==
    /\ \E s \in DOMAIN FeedPool :
         \E order \in OrderByDistance(FeedPool,
                           RelatedCandidates(FeedPool, FeedPool[s].source),
                           FeedPool[s].embedding, RelatedLimit) :
            LET rows == [k \in 1..Len(order) |->
                            [id |-> order[k], source |-> FeedPool[order[k]].source]]
                ids == <<s>> \o Diversify(rows, {})
            IN  /\ ~TooFewRelated(rows)
                /\ news_articles = UpdateSummarized(FeedPool, ids)
                /\ summaries = InsertSummary(<<>>, 1, Draft(ids), ids)
    /\ article_seq = PoolSize + 1
    /\ summary_seq = 2
    /\ InitLoaders
    /\ InitWorkers
    /\ InitEmbed

\* Two workers serving random-summary requests at once: w1 one request
\* after another, w2 a single request beside them.
NextPair ==
    \/ RandomSummaryOf("w1", ShapedOutcomes)
    \/ /\ pc["w2"] = "idle" => requests["w2"] = 0
       /\ RandomSummaryOf("w2", ShapedOutcomes)

SpecPair == InitUsed /\ [][NextPair]_vars

\* The two scripts loading summaries.json at once, beside a worker that
\* lists the summaries.
NextLoad ==
    \/ \E l \in SummaryLoaders : LoadSummariesStart(l)
    \/ \E l \in SummaryLoaders : LoadSummary(l)
    \/ GetSummaries("w1")

SpecLoad == InitRead /\ [][NextLoad]_vars

\* The threads of one process calling create_simple_embedding, the tables
\* left alone.
InitEmbedding ==
    /\ news_articles = <<>>
    /\ summaries = <<>>
    /\ article_seq = 1
    /\ summary_seq = 1
    /\ InitLoaders
    /\ InitWorkers
    /\ InitService

NextEmbed ==
    \E t \in Threads :
        \/ EmbedCall(t)
        \/ GetModel(t)
        \/ LoadModel(t)
        \/ Encode(t)
        \/ Seed(t)
        \/ Draw(t)

SpecEmbed == InitEmbedding /\ [][NextEmbed]_vars

\* ------------------------------------------------------------------ claims
\* The ids of a sequence of ids.
IdSet(ids) == {ids[k] : k \in 1..Len(ids)}

\* Worker p's last request was a random-summary flow that has ended.
FlowEnded(p) == kind[p] = "random" /\ pc[p] = "idle" /\ requests[p] > 0

\* C1: two random-summary flows that both answered 200 never recorded a
\* common article id in the summaries they persisted.
C1_FlowsSerialized ==
    \A p, q \in Workers :
        (/\ p # q
         /\ FlowEnded(p) /\ response[p].status = 200
         /\ FlowEnded(q) /\ response[q].status = 200)
        => IdSet(summaries[summary_id[p]].news_articles_ids)
             \cap IdSet(summaries[summary_id[q]].news_articles_ids) = {}

\* C2: after a random-summary flow has ended, either its summary is
\* persisted and every source article of it is marked summarized, or the
\* tables are as they were when the flow started.
C2_SaveAndMarkAtomic ==
    \A p \in Workers :
        FlowEnded(p) =>
            \/ /\ summary_id[p] \in DOMAIN summaries
               /\ \A i \in IdSet(summaries[summary_id[p]].news_articles_ids) :
                     news_articles[i].is_summarized
            \/ /\ summary_id[p] = 0
               /\ summaries = snapshot[p].summaries
               /\ news_articles = snapshot[p].news_articles

\* A random-summary flow of p ended in save_summary_to_db without a summary.
SaveFailed(p) == FlowEnded(p) /\ response[p].at = "save" /\ summary_id[p] = 0
                 /\ response[p].error # "abandoned"

\* C3: when generation succeeded and persisting the summary failed, the flow
\* answers with an error and every article's is_summarized is as it was
\* when the flow started.
C3_SaveFailureLeavesFlags ==
    \A p \in Workers :
        SaveFailed(p) =>
            /\ summary_data[p] # NoDraft
            /\ response[p].status = 500
            /\ response[p].error = "Failed to save summary to database"
            /\ summaries = snapshot[p].summaries
            /\ DOMAIN news_articles = DOMAIN snapshot[p].news_articles
            /\ \A i \in DOMAIN news_articles :
                  news_articles[i].is_summarized
                    = snapshot[p].news_articles[i].is_summarized

\* C3 witness: a flow that generated a draft and failed to save it.
C3_Witness ==
    \E p \in Workers : SaveFailed(p) /\ summary_data[p] = Draft(article_ids[p])

Sampled(p) == kind[p] = "random" /\ article_ids[p] # <<>>

\* C5: the ids passed to the summarizer are the seed followed by related
\* articles of pairwise different sources, none of the seed's source: of
\* every source among the returned related rows the first, which is a
\* nearest one of that source, in the order of the related rows.
C5_OnePerSource ==
    \A p \in Workers :
        Sampled(p) =>
            LET ids == article_ids[p]
                rel == related_articles[p]
                q == random_article[p].embedding
                src(i) == news_articles[i].source
                emb(i) == news_articles[i].embedding
                chosen == [k \in 1..(Len(ids) - 1) |-> ids[k + 1]]
                pos(k) == CHOOSE j \in 1..Len(rel) : rel[j].id = chosen[k]
            IN  /\ ids[1] = random_article[p].id
                /\ \A a, b \in 1..Len(ids) : a # b => src(ids[a]) # src(ids[b])
                /\ \A k \in DOMAIN chosen : \E j \in 1..Len(rel) : rel[j].id = chosen[k]
                /\ \A k, m \in DOMAIN chosen : k < m => pos(k) < pos(m)
                /\ \A j \in 1..Len(rel) :
                      \E k \in DOMAIN chosen :
                          src(chosen[k]) = rel[j].source /\ pos(k) <= j
                /\ \A k \in DOMAIN chosen, j \in 1..Len(rel) :
                      rel[j].source = src(chosen[k])
                      => ~Closer(q, emb(rel[j].id), emb(chosen[k]))
                /\ \A k, m \in DOMAIN chosen :
                      k < m => ~Closer(q, emb(chosen[m]), emb(chosen[k]))

\* C5 witness: a sample in which a related row was skipped for its source
\* and rows of two other sources were taken.
C5_Witness ==
    \E p \in Workers :
        /\ Sampled(p)
        /\ Len(article_ids[p]) >= 3
        /\ Len(related_articles[p]) > Len(article_ids[p]) - 1

\* Worker p's random-summary flow has run its related query.
RelatedQueried(p) == kind[p] = "random" /\ Len(issued[p]) >= 2

\* The answer of a flow refused for want of related articles.
Refused(p) ==
    /\ FlowEnded(p)
    /\ response[p].status = 404
    /\ response[p].error = "Not enough related articles found from different sources"

\* C6 as claimed: a flow whose related rows come from fewer than two
\* distinct sources is refused.
C6_Original ==
    \A p \in Workers :
        (/\ RelatedQueried(p)
         /\ Cardinality({related_articles[p][j].source :
                            j \in 1..Len(related_articles[p])}) < 2)
        => Refused(p)

\* C6 amended: a flow whose related query returned fewer than 2 rows is
\* refused with 404 having issued the two SELECTs only, and leaves the tables
\* as they were; a flow that is refused so returned fewer than 2 rows.
C6_TooFewRelatedRefused ==
    \A p \in Workers :
        RelatedQueried(p) =>
            /\ Len(related_articles[p]) < 2 =>
                  /\ Refused(p)
                  /\ issued[p] = <<"select_seed", "select_related">>
                  /\ summary_id[p] = 0
                  /\ summaries = snapshot[p].summaries
                  /\ news_articles = snapshot[p].news_articles
            /\ Refused(p) => Len(related_articles[p]) < 2

\* C6 witness: a flow refused with a single related row.
C6_Witness ==
    \E p \in Workers :
        RelatedQueried(p) /\ Len(related_articles[p]) = 1 /\ Refused(p)

\* For seed s among the rows of table T: the other unsummarized rows are
\* exactly r1..r5, strictly nearer in that order, of sources B, B, C, A, D
\* where A is the seed's and A, B, C, D differ.
Scenario(T, s, r1, r2, r3, r4, r5) ==
    LET q == T[s].embedding
        e(i) == T[i].embedding
    IN  /\ Unsummarized(T) \ {s} = {r1, r2, r3, r4, r5}
        /\ Closer(q, e(r1), e(r2)) /\ Closer(q, e(r2), e(r3))
        /\ Closer(q, e(r3), e(r4)) /\ Closer(q, e(r4), e(r5))
        /\ T[r1].source = T[r2].source
        /\ T[r4].source = T[s].source
        /\ Cardinality({T[s].source, T[r1].source, T[r3].source, T[r5].source}) = 4

\* C7: for seed S of source A whose unsummarized neighbours rank
\* [B1(B), B2(B), C1(C), A2(A), D1(D)], the ids passed to the summarizer
\* are exactly [S, B1, C1, D1].
C7_ScenarioResult ==
    \A p \in Workers :
        Sampled(p) =>
            LET T == snapshot[p].news_articles
                s == random_article[p].id
                U == Unsummarized(T) \ {s}
            IN  Cardinality(U) = 5 =>
                \A r1 \in U : \A r2 \in U \ {r1} : \A r3 \in U \ {r1, r2} :
                \A r4 \in U \ {r1, r2, r3} : \A r5 \in U \ {r1, r2, r3, r4} :
                    Scenario(T, s, r1, r2, r3, r4, r5)
                    => article_ids[p] = <<s, r1, r3, r5>>

\* C7 witness: a flow has sampled in the scenario's pool: seed 1, the
\* others ranked 2, 3, 4, 5, 6.
C7_Witness ==
    \E p \in Workers :
        /\ Sampled(p)
        /\ Scenario(snapshot[p].news_articles, random_article[p].id, 2, 3, 4, 5, 6)

\* Worker p takes the first step of a random-summary flow.
StartsFlow(p) ==
    pc[p] = "idle" /\ kind'[p] = "random" /\ requests'[p] = requests[p] + 1

\* C8: a random-summary request that finds no unsummarized article ends in
\* that step, answered 404 "No unsummarized articles found", having issued
\* the seed query alone, and both tables are unchanged.
C8_NoCandidates ==
    [][\A p \in Workers :
          (StartsFlow(p) /\ \A i \in DOMAIN news_articles :
                                news_articles[i].is_summarized)
          => /\ pc'[p] = "idle"
             /\ response'[p].status = 404
             /\ response'[p].error = "No unsummarized articles found"
             /\ issued'[p] = <<"select_seed">>
             /\ summary_id'[p] = 0
             /\ news_articles' = news_articles
             /\ summaries' = summaries]_vars

\* C8 witness: a flow found no unsummarized article and was refused, and
\* ingestion has stored articles since.
C8_Witness ==
    \E p \in Workers :
        /\ FlowEnded(p)
        /\ Unsummarized(snapshot[p].news_articles) = {}
        /\ response[p].error = "No unsummarized articles found"
        /\ DOMAIN news_articles # {}

\* C9: a stored article stays stored; is_summarized is FALSE when the row is
\* inserted, and changes only from FALSE to TRUE, in the UPDATE step of a
\* random-summary flow that holds the article's id.
C9_SummarizedOnlyByFlow ==
    [][/\ DOMAIN news_articles \subseteq DOMAIN news_articles'
       /\ \A i \in DOMAIN news_articles' :
             IF i \notin DOMAIN news_articles
             THEN ~news_articles'[i].is_summarized
             ELSE news_articles'[i].is_summarized # news_articles[i].is_summarized
                  => /\ ~news_articles[i].is_summarized
                     /\ news_articles'[i].is_summarized
                     /\ \E p \in Workers :
                           /\ kind[p] = "random" /\ pc[p] = "mark"
                           /\ pc'[p] = "idle"
                           /\ i \in IdSet(article_ids[p])
                           /\ summary_id[p] \in DOMAIN summaries]_vars

\* C9 witness: a flow has marked its articles summarized and an article
\* was ingested after the flow began.
C9_Witness ==
    \E p \in Workers :
        /\ FlowEnded(p) /\ response[p].status = 200
        /\ \A i \in IdSet(article_ids[p]) : news_articles[i].is_summarized
        /\ \E j \in DOMAIN news_articles :
              j \notin DOMAIN snapshot[p].news_articles
              /\ ~news_articles[j].is_summarized

\* No two stored articles share a link.
LinkUnique(table) ==
    \A i, j \in DOMAIN table : i # j => table[i].link # table[j].link

\* C10: after every step no two stored articles share a link; an INSERT of
\* a record whose link is stored leaves the table unchanged, and an INSERT
\* of a new link adds one row and changes no stored row.
C10_LinkUniqueIngestNoOp ==
    [][/\ LinkUnique(news_articles')
       /\ \A l \in Loaders :
             (loader_pc[l] = "import" /\ loader_pos'[l] = loader_pos[l] + 1)
             => IF \E i \in DOMAIN news_articles :
                       news_articles[i].link = Feed[loader_pos[l]].link
                THEN news_articles' = news_articles
                ELSE /\ Cardinality(DOMAIN news_articles')
                          = Cardinality(DOMAIN news_articles) + 1
                     /\ \A i \in DOMAIN news_articles :
                           /\ i \in DOMAIN news_articles'
                           /\ news_articles'[i] = news_articles[i]]_vars

\* C10 witness: both loaders have run through the feed, every link is
\* stored once, and an article had been summarized meanwhile.
C10_Witness ==
    /\ \A l \in Loaders : loads[l] = 1 /\ loader_pos[l] = Len(Feed) + 1
    /\ Cardinality(DOMAIN news_articles)
         = Cardinality({Feed[k].link : k \in 1..Len(Feed)})
    /\ \E i \in DOMAIN news_articles : news_articles[i].is_summarized

\* Worker p's last request was served by `endpoint` and answered 200.
Served(p, endpoint) ==
    kind[p] = endpoint /\ pc[p] = "idle" /\ requests[p] > 0
    /\ response[p].status = 200

\* The ids of a page: of articles the ids themselves, of summaries the id
\* of each payload.
PageIds(p) ==
    IF kind[p] = "search" THEN response[p].body
    ELSE [k \in 1..Len(response[p].body) |-> response[p].body[k].id]

\* `ids` are `n` rows of `matching` (all of them when there are fewer) in
\* non-decreasing distance from q, and no row left out is strictly nearer
\* than a row among them.
TopRanked(table, matching, q, n, ids) ==
    /\ IdSet(ids) \subseteq matching
    /\ Len(ids) = Cardinality(IdSet(ids))
    /\ Len(ids) = IF n < Cardinality(matching) THEN n ELSE Cardinality(matching)
    /\ \A k, m \in 1..Len(ids) :
          k < m => ~Closer(q, table[ids[m]].embedding, table[ids[k]].embedding)
    /\ \A i \in matching \ IdSet(ids) : \A k \in 1..Len(ids) :
          ~Closer(q, table[i].embedding, table[ids[k]].embedding)

\* C11: every similarity search (article search, summary search, summary
\* listing with q) answers with the limit nearest matching rows of the
\* tables it read, in non-decreasing distance from the query, none of the
\* rows it leaves out being strictly nearer than one it returns.
C11_RankedBeforeTruncated ==
    \A p \in Workers :
        /\ Served(p, "search") =>
              LET T == snapshot[p].news_articles
              IN  TopRanked(T,
                      {i \in DOMAIN T : request[p].source = ""
                                          \/ T[i].source = request[p].source},
                      create_simple_embedding(request[p].q),
                      int(request[p].limit, DefaultLimit), PageIds(p))
        /\ Served(p, "search_summary") =>
              TopRanked(snapshot[p].summaries, DOMAIN snapshot[p].summaries,
                        create_simple_embedding(request[p].q),
                        int(request[p].limit, DefaultLimit), PageIds(p))
        /\ (Served(p, "summaries") /\ request[p].q # Absent
               /\ request[p].offset = Absent) =>
              TopRanked(snapshot[p].summaries, DOMAIN snapshot[p].summaries,
                        create_simple_embedding(request[p].q),
                        int(request[p].limit, DefaultLimit), PageIds(p))

\* C11 witness: an article search answered with 2 of more than 2 matching
\* articles.
C11_Witness ==
    \E p \in Workers :
        /\ Served(p, "search")
        /\ request[p].source = ""
        /\ Len(response[p].body) = 2
        /\ Cardinality(DOMAIN snapshot[p].news_articles) > 2

\* a and b lie at the same distance from q.
Tied(q, a, b) == ~Closer(q, a, b) /\ ~Closer(q, b, a)

\* In `ids`, rows at the same distance from q stand in ascending id order,
\* and a row of `matching` left out is not tied with a returned row of
\* greater id.
TiesById(table, matching, q, ids) ==
    /\ \A k, m \in 1..Len(ids) :
          (k < m /\ Tied(q, table[ids[k]].embedding, table[ids[m]].embedding))
          => ids[k] < ids[m]
    /\ \A i \in matching \ IdSet(ids) : \A k \in 1..Len(ids) :
          Tied(q, table[i].embedding, table[ids[k]].embedding) => ids[k] < i

\* C12: in every similarity search result, rows at the same distance from
\* the query appear in ascending id order, and of tied rows those of
\* smaller id survive the truncation to the limit.
C12_TiesByAscendingId ==
    \A p \in Workers :
        /\ Served(p, "search") =>
              LET T == snapshot[p].news_articles
              IN  TiesById(T,
                      {i \in DOMAIN T : request[p].source = ""
                                          \/ T[i].source = request[p].source},
                      create_simple_embedding(request[p].q), PageIds(p))
        /\ Served(p, "search_summary") =>
              TiesById(snapshot[p].summaries, DOMAIN snapshot[p].summaries,
                       create_simple_embedding(request[p].q), PageIds(p))

\* Worker p's last request created summary `id`: either endpoint answered
\* 200 having inserted it.
Created(p, id) ==
    /\ kind[p] \in {"explicit", "random"} /\ pc[p] = "idle"
    /\ response[p].status = 200
    /\ summary_id[p] = id

\* C13: a summary that summarize produced and saved is returned by every
\* fetch (by id, by listing, by search) with the refs of its generated
\* draft: each cited sentence with the id of the article that grounds it.
C13_RefsPersisted ==
    \A p, r \in Workers :
        (Served(r, "summary") \/ Served(r, "summaries") \/ Served(r, "search_summary"))
        => \A k \in 1..Len(response[r].body) :
              Created(p, response[r].body[k].id)
              => response[r].body[k].refs = summary_data[p].refs

\* C14: any two fallback invocations of create_simple_embedding with the
\* same text in one process return the same vector, whatever other calls
\* run between them or beside them on other threads.
C14_FallbackDeterministic ==
    \A a, b \in embedded :
        (a.path = "fallback" /\ b.path = "fallback" /\ a.text = b.text)
        => a.out = b.out

\* C15: the constructor of the embedding model runs at most once in a
\* process, under any interleaving of first-use calls and over any later
\* calls.
C15_ModelConstructedOnce == constructor_runs <= 1

\* C16: create_simple_embedding never raises: when the model is missing,
\* when loading it raises or when encoding raises, the call returns the
\* fallback vector.
C16_EmbedNeverRaises ==
    \A e \in embedded : e.path \in {"model", "fallback"}

\* Worker p's random-summary flow ended in its sampler: at the seed query
\* (NoCandidates) or at the related query (InsufficientDiversity).
SamplerFailed(p) == FlowEnded(p) /\ Len(issued[p]) <= 2

\* C17 as claimed: a sampler failure of the random-summary flow is answered
\* with a server error (5xx).
C17_Original ==
    \A p \in Workers : SamplerFailed(p) => response[p].status >= 500

\* C17 amended: a sampler failure of the random-summary flow is answered
\* 404 with the failure's message: "No unsummarized articles found" after
\* the seed query, "Not enough related articles found from different
\* sources" after the related query.
C17_SamplerFailuresNotFound ==
    \A p \in Workers :
        SamplerFailed(p) =>
            /\ response[p].status = 404
            /\ response[p].error =
                  IF Len(issued[p]) = 1
                  THEN "No unsummarized articles found"
                  ELSE "Not enough related articles found from different sources"

\* C17 witness: a flow that found a seed among the ingested articles and
\* too few related ones.
C17_Witness ==
    \E p \in Workers :
        /\ SamplerFailed(p)
        /\ issued[p] = <<"select_seed", "select_related">>
        /\ random_article[p].id \in DOMAIN news_articles
        /\ response[p].status = 404

\* The request of worker p ended because summarize failed: the generation
\* gave no draft (the external call raised or its answer was no JSON) or
\* the summary could not be stored.
SummarizeFailed(p) ==
    /\ kind[p] \in {"explicit", "random"} /\ pc[p] = "idle" /\ requests[p] > 0
    /\ response[p].at \in {"generate", "save"}
    /\ response[p].error \in {"Failed to generate summary",
                               "Failed to save summary to database"}

\* C18: when summarize fails for the external call, a non-conforming
\* answer or a storage error, POST /api/summaries and POST
\* /api/random-summary both answer with a server error (5xx) carrying the
\* failure's message.
C18_SummarizeFailureServerError ==
    \A p \in Workers : SummarizeFailed(p) => response[p].status >= 500

\* A request to `endpoint` with parameters `args`, the summaries table
\* being `table`, lacks a required parameter, carries a malformed one or
\* names a summary that is not stored.
Malformed(endpoint, args, table) ==
    CASE endpoint \in {"search", "search_summary"} ->
            ~args.body \/ args.q = "" \/ IntRaises(args.limit)
      [] endpoint = "explicit" -> ~args.body \/ args.article_ids = <<>>
      [] endpoint = "news" ->
            \/ IntRaises(args.limit) \/ IntRaises(args.offset)
            \/ \E k \in 1..Len(args.ids) : IntRaises(args.ids[k])
      [] endpoint = "summaries" -> IntRaises(args.limit) \/ IntRaises(args.offset)
      [] endpoint = "summary" ->
            IntRaises(args.id) \/ int(args.id, 0) \notin DOMAIN table
      [] OTHER -> FALSE

\* C19: a request with a missing or malformed parameter (no body, empty q,
\* empty article_ids, a limit, offset or id that is no integer) or for an
\* unknown summary id is answered at once with a client error (4xx), 404
\* for the unknown id, and changes no table.
C19_MalformedClientError ==
    [][\A p \in Workers :
          (/\ requests'[p] = requests[p] + 1
           /\ Malformed(kind'[p], request'[p], summaries))
          => /\ pc'[p] = "idle"
             /\ response'[p].status \in 400..499
             /\ kind'[p] = "summary" => response'[p].status = 404
             /\ db' = db]_vars

\* The endpoints that read: article listing and search, summary listing,
\* search and fetch by id.
ReadEndpoints == {"news", "search", "summaries", "search_summary", "summary"}

\* C20: a step of a read endpoint leaves every stored article and summary
\* as it was, and two fetches of the same summary id that read the same
\* summaries table are answered with identical payloads.
C20_ReadsLeaveStorage ==
    [][/\ \A p \in Workers :
            (requests'[p] = requests[p] + 1 /\ kind'[p] \in ReadEndpoints)
            => /\ news_articles' = news_articles
               /\ summaries' = summaries
               /\ article_seq' = article_seq /\ summary_seq' = summary_seq
       /\ \A p, r \in Workers :
            (/\ kind'[p] = "summary" /\ kind'[r] = "summary"
             /\ requests'[p] > 0 /\ requests'[r] > 0
             /\ request'[p] = request'[r]
             /\ snapshot'[p].summaries = snapshot'[r].summaries)
            => response'[p] = response'[r]]_vars

\* C20 witness: both workers fetched the same stored summary, no write
\* between the fetches, and were answered 200.
C20_Witness ==
    /\ \A p \in Workers : Served(p, "summary") /\ Len(response[p].body) = 1
    /\ request["w1"] = request["w2"]
    /\ snapshot["w1"].summaries = snapshot["w2"].summaries
    /\ response["w1"].body = response["w2"].body

\* C21: every stored summary lists at least one source article, and every
\* id it lists is the id of a stored article (articles are never deleted,
\* so an id that is not stored now was not stored when the summary was
\* created).
C21_SourceIdsStored ==
    \A s \in DOMAIN summaries :
        /\ summaries[s].news_articles_ids # <<>>
        /\ IdSet(summaries[s].news_articles_ids) \subseteq DOMAIN news_articles

\* The generation requests worker p's request has sent to the external model.
Generations(p) == Cardinality({k \in DOMAIN issued[p] : issued[p][k] = "generate"})

\* Worker p's request ended because the generation gave no draft.
GenerationFailed(p) ==
    /\ kind[p] \in {"explicit", "random"} /\ pc[p] = "idle"
    /\ response[p].error = "Failed to generate summary"

\* C22: a call of summarize sends at most one generation request: a call
\* that ended for a failed generation sent exactly one and issued nothing
\* after it, and a draft in hand is the parsed answer of the one request
\* this call sent for its own articles, never one kept from an earlier call.
C22_OneGeneration ==
    \A p \in Workers :
        /\ Generations(p) <= 1
        /\ GenerationFailed(p) =>
              /\ Generations(p) = 1
              /\ issued[p][Len(issued[p])] = "generate"
              /\ summary_data[p] = NoDraft
        /\ summary_data[p] # NoDraft =>
              /\ Generations(p) = 1
              /\ summary_data[p] \in {ParsedAnswer(article_ids[p], o) :
                                         o \in GenerateOutcomes}

\* C22 witness: a call that ended for a failed generation after one request.
C22_Witness ==
    \E p \in Workers : GenerationFailed(p) /\ Generations(p) = 1

\* C23: a request whose generation answered with a JSON object lacking one
\* of the declared keys stores no summary and does not answer 200.
C23_WrongShapeRejected ==
    \A p \in Workers :
        (summary_data[p] # NoDraft /\ summary_data[p].keys # DeclaredKeys)
        => /\ summary_id[p] = 0
           /\ pc[p] = "idle" => response[p].status # 200

\* C24: the ids a random-summary flow passes to summarize_news_articles
\* are at least 2 and at most 1 + 5 = 6, and the first is the seed's.
C24_SampleSize ==
    \A p \in Workers :
        Sampled(p) =>
            /\ Len(article_ids[p]) >= 2
            /\ Len(article_ids[p]) <= 1 + RelatedLimit
            /\ article_ids[p][1] = random_article[p].id

\* C24 witness: a flow passed the seed and one neighbour, the related
\* query having returned several rows of one source.
C24_Witness ==
    \E p \in Workers :
        /\ Sampled(p) /\ pc[p] = "fetch"
        /\ Len(article_ids[p]) = 2
        /\ Len(related_articles[p]) >= 3

\* Worker p's random-summary flow found its seed: the request did not end
\* at the seed query.
SeedSelected(p) ==
    kind[p] = "random" /\ requests[p] > 0 /\ response[p].at # "idle"

\* C25: the seed and the related rows of a random-summary flow are not
\* among the articles that were marked summarized when the flow started,
\* the ids it passes on are the seed's and related rows', and every related
\* row is of another source than the seed.
C25_ConsumedNeverSelected ==
    \A p \in Workers :
        SeedSelected(p) =>
            LET T == snapshot[p].news_articles
                rel == related_articles[p]
                Fresh(i) == i \in DOMAIN T => ~T[i].is_summarized
            IN  /\ random_article[p].id \in DOMAIN T
                /\ Fresh(random_article[p].id)
                /\ \A k \in 1..Len(rel) :
                      /\ Fresh(rel[k].id)
                      /\ rel[k].source # random_article[p].source
                      /\ rel[k].source = news_articles[rel[k].id].source
                /\ IdSet(article_ids[p])
                      \subseteq {random_article[p].id} \cup {rel[k].id : k \in 1..Len(rel)}

\* C25 witness: a flow that started when articles were already marked has
\* chosen its articles among the others.
C25_Witness ==
    \E p \in Workers :
        /\ Sampled(p) /\ SeedSelected(p)
        /\ \E i \in DOMAIN snapshot[p].news_articles :
              snapshot[p].news_articles[i].is_summarized
        /\ \E k \in 1..Len(related_articles[p]) :
              \E i \in DOMAIN snapshot[p].news_articles :
                  /\ snapshot[p].news_articles[i].is_summarized
                  /\ snapshot[p].news_articles[i].source = related_articles[p][k].source

\* C26: GET /api/summaries with q answers with the window of the
\* similarity ranking of the stored summaries that starts after `offset`
\* rows and holds min(limit, max(0, n - offset)) rows, n being the number
\* of stored summaries.
C26_SearchWindow ==
    \A p \in Workers :
        (Served(p, "summaries") /\ request[p].q # Absent) =>
            LET T == snapshot[p].summaries
                n == Cardinality(DOMAIN T)
                limit == int(request[p].limit, DefaultLimit)
                offset == int(request[p].offset, 0)
                rest == IF n > offset THEN n - offset ELSE 0
                size == IF limit < rest THEN limit ELSE rest
            IN  /\ Len(response[p].body) = size
                /\ \E order \in OrderByDistance(T, DOMAIN T,
                                    create_simple_embedding(request[p].q), n) :
                       PageIds(p) = SubSeq(order, offset + 1, offset + size)

\* The stored articles of table T that satisfy every filter of the
\* GET /api/news request `args`.
NewsMatching(T, args) ==
    {i \in DOMAIN T :
        /\ args.source = "" \/ T[i].source = args.source
        /\ args.ids = <<>> \/ \E k \in 1..Len(args.ids) : int(args.ids[k], 0) = i}

\* C27: the total of a GET /api/news answer is the number of stored
\* articles that satisfy the request's source and ids filters, and every
\* article of the page satisfies them.
C27_TotalMatchesFilters ==
    \A p \in Workers :
        Served(p, "news") =>
            LET matching == NewsMatching(snapshot[p].news_articles, request[p])
            IN  /\ response[p].total = Cardinality(matching)
                /\ IdSet(response[p].body) \subseteq matching

\* The stored rows that hold record k of summaries.json.
StoredCopies(k) ==
    {s \in DOMAIN summaries : summaries[s].title = SummaryFile[k].title}

\* C28: whatever runs of load_summaries_json have started, finished or
\* overlapped, every record of summaries.json is stored at most once.
C28_SummariesLoadedOnce ==
    \A k \in 1..Len(SummaryFile) : Cardinality(StoredCopies(k)) <= 1

\* Worker p's random-summary flow takes its last step and answers 200.
Succeeds(p) ==
    kind[p] = "random" /\ pc[p] = "mark" /\ pc'[p] = "idle"
    /\ response'[p].status = 200

\* C29: the step by which a random-summary flow succeeds leaves at least
\* two unsummarized articles fewer than there were before it.
C29_SuccessConsumesTwo ==
    [][\A p \in Workers :
          Succeeds(p) =>
              Cardinality(Unsummarized(news_articles'))
                  <= Cardinality(Unsummarized(news_articles)) - 2]_vars

\* The random-summary flows in progress.
FlowsInProgress == {p \in Workers : kind[p] = "random" /\ pc[p] # "idle"}

\* C30: every connection create_random_summary has opened and not closed
\* belongs to a flow still in progress: a flow that has answered, with
\* whatever status, has closed its connection.
C30_ConnectionsClosed == open_connections = Cardinality(FlowsInProgress)

====
